---- MODULE Spec2Model ----
(***************************************************************************)
(* MoodChef backend: the recipe collection, POST /api/get-recipes and      *)
(* POST /api/seed-recipes (and the seed script, which runs the same two    *)
(* store operations on the same catalog); and the mobile client App.       *)
(*                                                                         *)
(* An async handler runs atomically between two awaits, so each action is  *)
(* one such segment: the store operation that the await resolves, followed *)
(* by the synchronous code up to the next await or the response.           *)
(*                                                                         *)
(* A mood is a sequence of one-character strings, so that toLowerCase is   *)
(* computed character by character. An ingredient name is only ever        *)
(* compared for equality and is a plain string. A value that may be        *)
(* missing from the request body is a sequence of length 0 (missing) or 1. *)
(***************************************************************************)
EXTENDS Naturals, Integers, Sequences, FiniteSets, TLC

VARIABLES store, storeVer, req, seed, app, storage, sub

vars == <<store, storeVer, req, seed, app, storage, sub>>

\* The state of the mobile client.
client == <<app, storage, sub>>

(***************************************************************************)
(* Bounds of the model.                                                    *)
(***************************************************************************)
NumReq == 2
NumSeeders == 2
MaxIngr == 2

Handlers == 1..NumReq
Seeders == 1..NumSeeders

(***************************************************************************)
(* Program constants.                                                      *)
(***************************************************************************)
QueryLimit == 10
TopN == 3

(***************************************************************************)
(* Generic helpers.                                                        *)
(***************************************************************************)
Range(s) == {s[i] : i \in 1..Len(s)}

Min2(a, b) == IF a < b THEN a ELSE b

None == <<>>

Some(v) == <<v>>

SeqsUpTo(S, n) == UNION {[1..k -> S] : k \in 0..n}

(***************************************************************************)
(* String.prototype.toLowerCase on the letters A-Z.                        *)
(***************************************************************************)
UpperChars == <<"A","B","C","D","E","F","G","H","I","J","K","L","M",
                "N","O","P","Q","R","S","T","U","V","W","X","Y","Z">>

LowerChars == <<"a","b","c","d","e","f","g","h","i","j","k","l","m",
                "n","o","p","q","r","s","t","u","v","w","x","y","z">>

LowerChar(c) ==
    IF \E k \in 1..Len(UpperChars) : UpperChars[k] = c
    THEN LowerChars[CHOOSE k \in 1..Len(UpperChars) : UpperChars[k] = c]
    ELSE c

toLowerCase(s) == [i \in 1..Len(s) |-> LowerChar(s[i])]

(***************************************************************************)
(* The mood labels of the catalog.                                         *)
(***************************************************************************)
sad == <<"s","a","d">>
happy == <<"h","a","p","p","y">>
stressed == <<"s","t","r","e","s","s","e","d">>
lazy == <<"l","a","z","y">>
love == <<"l","o","v","e">>
sick == <<"s","i","c","k">>
bored == <<"b","o","r","e","d">>

(***************************************************************************)
(* The fixed catalog that seeding inserts. The endpoint's sampleRecipes    *)
(* and the seed script's seedRecipes are the same fifteen records; only    *)
(* the fields the matching reads are kept (name, moodTags, ingredients).   *)
(***************************************************************************)
sampleRecipes == <<
    [name |-> "Comfort Mac and Cheese",
     moodTags |-> <<sad, stressed>>,
     ingredients |-> <<"pasta", "cheese", "milk", "butter", "flour">>],
    [name |-> "Rainbow Veggie Stir-Fry",
     moodTags |-> <<happy, bored>>,
     ingredients |-> <<"bell pepper", "broccoli", "carrot", "garlic", "ginger", "rice">>],
    [name |-> "Soothing Tomato Basil Soup",
     moodTags |-> <<stressed, sick>>,
     ingredients |-> <<"tomato", "onion", "garlic", "herbs", "milk">>],
    [name |-> "Quick Avocado Toast",
     moodTags |-> <<lazy, happy>>,
     ingredients |-> <<"bread", "cheese", "tomato", "herbs">>],
    [name |-> "Romantic Mushroom Risotto",
     moodTags |-> <<love, happy>>,
     ingredients |-> <<"rice", "mushroom", "onion", "garlic", "cheese">>],
    [name |-> "Healing Ginger Lentil Soup",
     moodTags |-> <<sick, stressed>>,
     ingredients |-> <<"lentils", "ginger", "garlic", "onion", "carrot">>],
    [name |-> "Spicy Chickpea Curry",
     moodTags |-> <<bored, happy>>,
     ingredients |-> <<"chickpeas", "tomato", "onion", "garlic", "ginger", "spices">>],
    [name |-> "Lazy Day Pasta Primavera",
     moodTags |-> <<lazy, happy>>,
     ingredients |-> <<"pasta", "broccoli", "bell pepper", "garlic", "olive oil">>],
    [name |-> "Mood-Boosting Smoothie Bowl",
     moodTags |-> <<sad, happy>>,
     ingredients |-> <<"oats", "milk", "yogurt">>],
    [name |-> "Comforting Potato Soup",
     moodTags |-> <<sad, stressed, sick>>,
     ingredients |-> <<"potato", "onion", "garlic", "milk", "butter">>],
    [name |-> "Energizing Quinoa Salad",
     moodTags |-> <<happy, bored>>,
     ingredients |-> <<"quinoa", "cucumber", "tomato", "herbs", "olive oil">>],
    [name |-> "Love-Filled Stuffed Bell Peppers",
     moodTags |-> <<love, happy>>,
     ingredients |-> <<"bell pepper", "rice", "mushroom", "cheese", "herbs">>],
    [name |-> "Simple Herb Omelette",
     moodTags |-> <<lazy, happy>>,
     ingredients |-> <<"eggs", "herbs", "cheese", "butter">>],
    [name |-> "Warming Golden Turmeric Rice",
     moodTags |-> <<sick, stressed>>,
     ingredients |-> <<"rice", "turmeric", "ginger", "garlic", "coconut oil">>],
    [name |-> "Adventure Spice Mix Roasted Vegetables",
     moodTags |-> <<bored, happy>>,
     ingredients |-> <<"potato", "carrot", "broccoli", "spices", "olive oil">>]
  >>

(***************************************************************************)
(* Request inputs. A mood or an ingredient list may be missing (None).     *)
(***************************************************************************)
HAPPY == <<"H","A","P","P","Y">>
excited == <<"e","x","c","i","t","e","d">>

MoodInputs == {None, Some(<<>>), Some(happy), Some(HAPPY), Some(excited)}

ReqVocab == {"rice", "mushroom"}

ExampleRequests == {<<"nonexistent-item">>, <<"garlic", "herbs", "eggs">>}

IngredientInputs ==
    {None} \cup {Some(l) : l \in SeqsUpTo(ReqVocab, MaxIngr) \cup ExampleRequests}

(***************************************************************************)
(* The store's queries.                                                    *)
(***************************************************************************)
\* { field: { $in: values } } on an array field: some element of the field
\* is one of the values.
In(field, values) == \E i \in 1..Len(field) : field[i] \in Range(values)

\* Variant: the cursor is shared by the invocations and is not rewound, so a
\* query starts after one record per response already sent.
LimitAfterServed(records, n) ==
    LET served == Cardinality({r \in Handlers : req[r].pc = "done"})
    IN SubSeq(records, 1 + served, Min2(Len(records), n + served))

\* cursor.limit(n): the first n records in the store's natural order.
Limit(records, n) == SubSeq(records, 1, Min2(Len(records), n))

\* Variant: the mood is used as typed.
MoodTagAsTyped(mood) == mood

\* The mood tag the primary query looks for: mood.toLowerCase()
MoodTag(mood) == toLowerCase(mood)

\* Recipe.find(query).limit(10)
FindQuery(coll, mood, ingredients) ==
    Limit(SelectSeq(coll, LAMBDA rec : /\ In(rec.moodTags, <<MoodTag(mood)>>)
                                       /\ In(rec.ingredients, ingredients)),
          QueryLimit)

\* Recipe.find(broadQuery).limit(10)
FindBroadQuery(coll, ingredients) ==
    Limit(SelectSeq(coll, LAMBDA rec : In(rec.ingredients, ingredients)),
          QueryLimit)

(***************************************************************************)
(* Scoring, ranking and truncation.                                        *)
(***************************************************************************)
\* ingredients.includes(ingredient)
Includes(arr, x) == \E i \in 1..Len(arr) : arr[i] = x

\* Variant: the filter runs over the requested list instead of the recipe's.
MatchingRequested(recipe, ingredients) ==
    SelectSeq(ingredients, LAMBDA ingredient : Includes(recipe.ingredients, ingredient))

MatchingIngredients(recipe, ingredients) ==
    SelectSeq(recipe.ingredients, LAMBDA ingredient : Includes(ingredients, ingredient))

ScoreRecipe(recipe, ingredients) ==
    [name |-> recipe.name,
     moodTags |-> recipe.moodTags,
     ingredients |-> recipe.ingredients,
     matchScore |-> Len(MatchingIngredients(recipe, ingredients)),
     matchingIngredients |-> MatchingIngredients(recipe, ingredients)]

scoredRecipes(recipes, ingredients) ==
    [i \in 1..Len(recipes) |-> ScoreRecipe(recipes[i], ingredients)]

\* Variant: the comparator with its operands swapped, a.matchScore - b.matchScore.
CompareAscending(a, b) == a.matchScore - b.matchScore

\* The comparator (a, b) => b.matchScore - a.matchScore: positive when a
\* must come after b.
Compare(a, b) == b.matchScore - a.matchScore

\* Variant: an unstable sort, x goes before the elements it ties with.
RECURSIVE InsertBeforeEqual(_, _)
InsertBeforeEqual(sorted, x) ==
    IF sorted = <<>> THEN <<x>>
    ELSE IF Compare(sorted[Len(sorted)], x) < 0
         THEN Append(sorted, x)
         ELSE Append(InsertBeforeEqual(SubSeq(sorted, 1, Len(sorted) - 1), x),
                     sorted[Len(sorted)])

\* Array.prototype.sort is a stable sort: x goes after every element it
\* does not have to precede.
RECURSIVE InsertSorted(_, _)
InsertSorted(sorted, x) ==
    IF sorted = <<>> THEN <<x>>
    ELSE IF Compare(sorted[Len(sorted)], x) <= 0
         THEN Append(sorted, x)
         ELSE Append(InsertSorted(SubSeq(sorted, 1, Len(sorted) - 1), x),
                     sorted[Len(sorted)])

RECURSIVE Sort(_)
Sort(arr) ==
    IF arr = <<>> THEN <<>>
    ELSE InsertSorted(Sort(SubSeq(arr, 1, Len(arr) - 1)), arr[Len(arr)])

\* Variant: .slice(-3)
SliceLast(arr) == SubSeq(arr, Len(arr) - Min2(Len(arr), TopN) + 1, Len(arr))

\* Variant: .slice(0, 4)
SliceFour(arr) == SubSeq(arr, 1, Min2(Len(arr), TopN + 1))

\* .slice(0, 3)
Slice(arr) == SubSeq(arr, 1, Min2(Len(arr), TopN))

topRecipes(recipes, ingredients) == Slice(Sort(scoredRecipes(recipes, ingredients)))

(***************************************************************************)
(* The request handler of POST /api/get-recipes.                           *)
(***************************************************************************)
\* Variant: !mood || !ingredients
InvalidIgnoringLength(mood, ingredients) ==
    \/ mood = None
    \/ mood[1] = <<>>
    \/ ingredients = None

\* !mood || !ingredients || ingredients.length === 0
Invalid(mood, ingredients) ==
    \/ mood = None
    \/ mood[1] = <<>>
    \/ ingredients = None
    \/ Len(ingredients[1]) = 0

\* Variant: recipes.length < 3
FewExactMatches(recipes) == Len(recipes) < TopN

\* recipes.length === 0
NoExactMatch(recipes) == Len(recipes) = 0

\* A handler: its position, the request body, and the response it sent.
\* nPrimary and nFallback count the queries it issued, primaryLen and
\* fallbackLen are the numbers of records they returned (-1: none returned),
\* failed names the query that rejected, vers holds the versions of the
\* collection its queries read.
IdleReq ==
    [pc |-> "idle", mood |-> None, ingredients |-> None,
     nPrimary |-> 0, nFallback |-> 0, primaryLen |-> -1, fallbackLen |-> -1,
     failed |-> "", vers |-> {},
     status |-> 0, error |-> "", result |-> <<>>]

\* Variant: the error is swallowed and an empty list is sent.
RespondEmptyList(h, code, message) ==
    [h EXCEPT !.pc = "done", !.status = 200]

\* res.status(code).json({ error: message })
RespondError(h, code, message) ==
    [h EXCEPT !.pc = "done", !.status = code, !.error = message]

\* Variant: an empty ranking is answered as 404.
RespondRecipesOr404(h, recipes) ==
    IF recipes = <<>>
    THEN [h EXCEPT !.pc = "done", !.status = 404, !.error = "No recipes found"]
    ELSE [h EXCEPT !.pc = "done", !.status = 200,
                   !.result = Slice(Sort(scoredRecipes(recipes, h.ingredients[1])))]

\* res.json(topRecipes)
RespondRecipes(h, recipes) ==
    [h EXCEPT !.pc = "done", !.status = 200,
              !.result = topRecipes(recipes, h.ingredients[1])]

\* The request arrives: validation, then the primary query is issued.
\* Requests are numbered in their order of arrival.
Receive(r, mood, ingredients) ==
    /\ req[r].pc = "idle"
    /\ r > 1 => req[r - 1].pc # "idle"
    /\ IF Invalid(mood, ingredients)
       THEN req' = [req EXCEPT ![r] =
                       RespondError([@ EXCEPT !.mood = mood,
                                              !.ingredients = ingredients],
                                    400, "Mood and ingredients are required")]
       ELSE req' = [req EXCEPT ![r].pc = "primary", ![r].mood = mood,
                               ![r].ingredients = ingredients,
                               ![r].nPrimary = @ + 1]
    /\ UNCHANGED <<store, storeVer, seed, client>>

\* The primary query resolves: either the fallback query is issued, or the
\* records are scored, ranked, truncated and sent.
PrimaryQuery(r) ==
    /\ req[r].pc = "primary"
    /\ LET recipes == FindQuery(store, req[r].mood[1], req[r].ingredients[1])
           h == [req[r] EXCEPT !.primaryLen = Len(recipes),
                               !.vers = @ \cup {storeVer}]
       IN IF NoExactMatch(recipes)
          THEN req' = [req EXCEPT ![r] = [h EXCEPT !.pc = "fallback",
                                                   !.nFallback = @ + 1]]
          ELSE req' = [req EXCEPT ![r] = RespondRecipes(h, recipes)]
    /\ UNCHANGED <<store, storeVer, seed, client>>

\* The primary query rejects: the catch block answers 500.
PrimaryFail(r) ==
    /\ req[r].pc = "primary"
    /\ req' = [req EXCEPT ![r] = RespondError([@ EXCEPT !.failed = "primary"],
                                              500, "Failed to fetch recipes")]
    /\ UNCHANGED <<store, storeVer, seed, client>>

\* Variant: the handler writes the records it fetched back to the collection.
FallbackQuerySaving(r) ==
    /\ req[r].pc = "fallback"
    /\ LET recipes == FindBroadQuery(store, req[r].ingredients[1])
           h == [req[r] EXCEPT !.fallbackLen = Len(recipes),
                               !.vers = @ \cup {storeVer}]
       IN /\ req' = [req EXCEPT ![r] = RespondRecipes(h, recipes)]
          /\ store' = store \o recipes
    /\ UNCHANGED <<storeVer, seed, client>>

\* The fallback query resolves.
FallbackQuery(r) ==
    /\ req[r].pc = "fallback"
    /\ LET recipes == FindBroadQuery(store, req[r].ingredients[1])
           h == [req[r] EXCEPT !.fallbackLen = Len(recipes),
                               !.vers = @ \cup {storeVer}]
       IN req' = [req EXCEPT ![r] = RespondRecipes(h, recipes)]
    /\ UNCHANGED <<store, storeVer, seed, client>>

\* The fallback query rejects.
FallbackFail(r) ==
    /\ req[r].pc = "fallback"
    /\ req' = [req EXCEPT ![r] = RespondError([@ EXCEPT !.failed = "fallback"],
                                              500, "Failed to fetch recipes")]
    /\ UNCHANGED <<store, storeVer, seed, client>>

(***************************************************************************)
(* Seeding: POST /api/seed-recipes and seedDatabase. deleteMany and        *)
(* insertMany each take effect in one step of the store.                   *)
(***************************************************************************)
\* await Recipe.deleteMany({})
SeedDelete(s) ==
    /\ seed[s] = "idle"
    /\ store' = <<>>
    /\ storeVer' = storeVer + 1
    /\ seed' = [seed EXCEPT ![s] = "cleared"]
    /\ UNCHANGED <<req, client>>

\* await Recipe.insertMany(sampleRecipes), then the success response.
SeedInsert(s) ==
    /\ seed[s] = "cleared"
    /\ store' = store \o sampleRecipes
    /\ storeVer' = storeVer + 1
    /\ seed' = [seed EXCEPT ![s] = "seeded"]
    /\ UNCHANGED <<req, client>>

\* deleteMany or insertMany rejects: the catch block answers 500 (the
\* script exits with code 1).
SeedFail(s) ==
    /\ seed[s] \in {"idle", "cleared"}
    /\ seed' = [seed EXCEPT ![s] = "failed"]
    /\ UNCHANGED <<store, storeVer, req, client>>

(***************************************************************************)
(* The mobile client, App. app holds the React state and the positions of  *)
(* the two effects of the first render, storage is AsyncStorage, and sub   *)
(* holds the activations of submitRequest; activation k talks to handler k *)
(* of the server. A text is a sequence of characters, '' is <<>>.          *)
(***************************************************************************)
\* GET /api/ingredients
availableIngredients ==
    <<"tomato", "potato", "onion", "garlic", "ginger", "spinach", "broccoli",
      "carrot", "bell pepper", "mushroom", "cucumber", "lettuce", "rice",
      "pasta", "bread", "tofu", "paneer", "cheese", "milk", "yogurt",
      "beans", "lentils", "chickpeas", "quinoa", "oats", "olive oil",
      "coconut oil", "butter", "flour", "eggs", "herbs", "spices">>

\* The names of the preset mood buttons.
moods == <<sad, happy, stressed, lazy, love, sick, bored>>

\* What the user does: the preset buttons tapped, the texts typed into the
\* custom mood input, the ingredient buttons tapped.
TappedMoods == {happy}

TypedMoods == {<<>>, excited}

TappedIngredients == {"rice"}

\* What an earlier session of the app left in AsyncStorage: nothing, or the
\* selectedMood and the ingredients of its last successful request.
NoStorage == [selectedMood |-> None, selectedIngredients |-> None]

EarlierSessions ==
    {NoStorage} \cup
    {[selectedMood |-> Some(m), selectedIngredients |-> Some(<<"rice">>)] :
        m \in TappedMoods}

\* A parsed response body: an array of recipes, or an object { error }.
ArrayData(items) == [kind |-> "array", items |-> items, error |-> ""]

ObjectData(message) == [kind |-> "object", items |-> <<>>, error |-> message]

\* useState initial values; fetchPc and loadPc are the positions of
\* fetchIngredients and loadSavedData, savedMood is loadSavedData's local.
InitApp ==
    [currentScreen |-> "mood", selectedMood |-> <<>>, customMood |-> <<>>,
     selectedIngredients |-> <<>>, available |-> <<>>,
     recipes |-> ArrayData(<<>>), loading |-> FALSE,
     focused |-> FALSE, alert |-> "",
     fetchPc |-> "pending", loadPc |-> "getMood", savedMood |-> None]

IdleSub ==
    [pc |-> "idle", finalMood |-> <<>>, selectedMood |-> <<>>,
     selectedIngredients |-> <<>>]

\* An activation that returned; its closure is gone.
FinishedSub == [IdleSub EXCEPT !.pc = "finished"]

\* MoodScreen is a component declared inside App, so every render of App
\* mounts a new TextInput: a state change takes the focus away.
Render(a) == IF a = app THEN a ELSE [a EXCEPT !.focused = FALSE]

\* Alert.alert is a modal dialog: the screen takes no tap while it shows,
\* and the input is focused again only by a tap.
Alert(a, message) == [a EXCEPT !.alert = message, !.focused = FALSE]

CanTap(screen) == app.currentScreen = screen /\ app.alert = ""

\* ResultsScreen without the branch for an empty list: it maps the list,
\* and an empty list leaves the screen blank.
ShownWithoutEmptyState(a) ==
    IF a.currentScreen = "mood" THEN "MoodScreen"
    ELSE IF a.currentScreen = "ingredients" THEN "IngredientsScreen"
    ELSE IF a.recipes.kind = "array" /\ Len(a.recipes.items) = 0 THEN "Blank"
    ELSE IF a.recipes.kind = "array" THEN "RecipeCards"
    ELSE "TypeError"

\* What the current screen shows. ResultsScreen reads recipes.length and
\* calls recipes.map: an object has neither.
Shown(a) ==
    IF a.currentScreen = "mood" THEN "MoodScreen"
    ELSE IF a.currentScreen = "ingredients" THEN "IngredientsScreen"
    ELSE IF a.recipes.kind = "array" /\ Len(a.recipes.items) = 0 THEN "NoRecipes"
    ELSE IF a.recipes.kind = "array" THEN "RecipeCards"
    ELSE "TypeError"

\* fetchIngredients resolves.
FetchIngredients ==
    /\ app.fetchPc = "pending"
    /\ app' = Render([app EXCEPT !.fetchPc = "done",
                                 !.available = availableIngredients])
    /\ UNCHANGED <<store, storeVer, req, seed, storage, sub>>

\* fetchIngredients rejects.
FetchIngredientsFail ==
    /\ app.fetchPc = "pending"
    /\ app' = Alert([app EXCEPT !.fetchPc = "done"],
                    "Failed to load ingredients. Please check your connection.")
    /\ UNCHANGED <<store, storeVer, req, seed, storage, sub>>

\* loadSavedData: await AsyncStorage.getItem('selectedMood')
LoadMood ==
    /\ app.loadPc = "getMood"
    /\ app' = [app EXCEPT !.loadPc = "getIngredients",
                          !.savedMood = storage.selectedMood]
    /\ UNCHANGED <<store, storeVer, req, seed, storage, sub>>

\* if (savedMood) setSelectedMood(savedMood)
LoadedMood(a) ==
    IF a.savedMood # None /\ a.savedMood[1] # <<>>
    THEN [a EXCEPT !.selectedMood = a.savedMood[1]]
    ELSE a

\* loadSavedData: await AsyncStorage.getItem('selectedIngredients'), then
\* the two conditional setters.
LoadIngredients ==
    /\ app.loadPc = "getIngredients"
    /\ LET a == LoadedMood(app)
           b == IF storage.selectedIngredients # None
                THEN [a EXCEPT !.selectedIngredients = storage.selectedIngredients[1]]
                ELSE a
       IN app' = Render([b EXCEPT !.loadPc = "done", !.savedMood = None])
    /\ UNCHANGED <<store, storeVer, req, seed, storage, sub>>

\* A getItem rejects: the catch block only logs.
LoadFail ==
    /\ app.loadPc \in {"getMood", "getIngredients"}
    /\ app' = [app EXCEPT !.loadPc = "done", !.savedMood = None]
    /\ UNCHANGED <<store, storeVer, req, seed, storage, sub>>

\* One of the mood buttons is tapped.
handleMoodSelect(mood) ==
    /\ CanTap("mood")
    /\ Includes(moods, mood)
    /\ app' = Render([app EXCEPT !.selectedMood = mood, !.customMood = <<>>])
    /\ UNCHANGED <<store, storeVer, req, seed, storage, sub>>

\* The custom mood input is tapped: onFocus={() => setSelectedMood('')}.
\* The input keeps the focus when that changes no state.
FocusCustomMood ==
    /\ CanTap("mood")
    /\ ~app.focused
    /\ app' = IF app.selectedMood = <<>>
              THEN [app EXCEPT !.focused = TRUE]
              ELSE Render([app EXCEPT !.selectedMood = <<>>])
    /\ UNCHANGED <<store, storeVer, req, seed, storage, sub>>

\* The text of the focused input is edited: onChangeText={setCustomMood}
ChangeCustomMood(text) ==
    /\ CanTap("mood")
    /\ app.focused
    /\ text # app.customMood
    /\ app' = Render([app EXCEPT !.customMood = text])
    /\ UNCHANGED <<store, storeVer, req, seed, storage, sub>>

\* The Next button of MoodScreen.
PressNext ==
    /\ CanTap("mood")
    /\ app' = Render([app EXCEPT !.currentScreen = "ingredients"])
    /\ UNCHANGED <<store, storeVer, req, seed, storage, sub>>

\* The Back button of IngredientsScreen.
PressBack ==
    /\ CanTap("ingredients")
    /\ app' = Render([app EXCEPT !.currentScreen = "mood"])
    /\ UNCHANGED <<store, storeVer, req, seed, storage, sub>>

\* One of the ingredient buttons is tapped.
handleIngredientToggle(ingredient) ==
    /\ CanTap("ingredients")
    /\ Includes(app.available, ingredient)
    /\ app' = Render([app EXCEPT !.selectedIngredients =
                        IF Includes(@, ingredient)
                        THEN SelectSeq(@, LAMBDA item : item # ingredient)
                        ELSE Append(@, ingredient)])
    /\ UNCHANGED <<store, storeVer, req, seed, storage, sub>>

\* customMood || selectedMood
FinalMood(a) == IF a.customMood # <<>> THEN a.customMood ELSE a.selectedMood

\* A submit button that takes every press.
SubmitAlwaysEnabled == TRUE

\* The submit button takes the press: disabled={loading}
SubmitEnabled == ~app.loading

\* The second check of submitRequest passes whatever is selected.
AnyIngredients(a) == FALSE

\* selectedIngredients.length === 0
NoIngredients(a) == Len(a.selectedIngredients) = 0

\* The Get Recipes button is pressed and submitRequest runs up to its
\* fetch: the two checks, setLoading(true), and the request leaves.
submitRequest(k) ==
    /\ CanTap("ingredients")
    /\ SubmitEnabled
    /\ sub[k].pc = "idle"
    /\ \A j \in Handlers : j < k => sub[j].pc # "idle"
    /\ IF app.selectedMood = <<>> /\ app.customMood = <<>>
       THEN /\ app' = Alert(app, "Please select a mood or enter a custom mood.")
            /\ sub' = sub
       ELSE IF NoIngredients(app)
       THEN /\ app' = Alert(app, "Please select at least one ingredient.")
            /\ sub' = sub
       ELSE /\ app' = Render([app EXCEPT !.loading = TRUE])
            /\ sub' = [sub EXCEPT ![k] =
                          [pc |-> "fetching", finalMood |-> FinalMood(app),
                           selectedMood |-> app.selectedMood,
                           selectedIngredients |-> app.selectedIngredients]]
    /\ UNCHANGED <<store, storeVer, req, seed, storage>>

\* The request of activation k reaches the server.
Deliver(k) ==
    /\ sub[k].pc = "fetching"
    /\ Receive(k, Some(sub[k].finalMood), Some(sub[k].selectedIngredients))

\* response.json() of the handler's response.
ResponseData(h) ==
    IF h.status = 200 THEN ArrayData(h.result) ELSE ObjectData(h.error)

\* The fetch resolves: setRecipes(data), setCurrentScreen('results'), and
\* saveData starts.
FetchResolve(k) ==
    /\ sub[k].pc = "fetching"
    /\ req[k].pc = "done"
    /\ app' = Render([app EXCEPT !.recipes = ResponseData(req[k]),
                                 !.currentScreen = "results"])
    /\ sub' = [sub EXCEPT ![k].pc = "saveMood"]
    /\ UNCHANGED <<store, storeVer, req, seed, storage>>

\* The fetch rejects: the catch block alerts, the finally block clears
\* loading.
FetchReject(k) ==
    /\ sub[k].pc = "fetching"
    /\ app' = Render(Alert([app EXCEPT !.loading = FALSE],
                           "Failed to get recipes. Please check your connection."))
    /\ sub' = [sub EXCEPT ![k] = FinishedSub]
    /\ UNCHANGED <<store, storeVer, req, seed, storage>>

\* saveData: await AsyncStorage.setItem('selectedMood', selectedMood)
SaveMood(k) ==
    /\ sub[k].pc = "saveMood"
    /\ storage' = [storage EXCEPT !.selectedMood = Some(sub[k].selectedMood)]
    /\ sub' = [sub EXCEPT ![k].pc = "saveIngredients"]
    /\ UNCHANGED <<store, storeVer, req, seed, app>>

\* saveData: await AsyncStorage.setItem('selectedIngredients', ...), then
\* the finally block of submitRequest.
SaveIngredients(k) ==
    /\ sub[k].pc = "saveIngredients"
    /\ storage' = [storage EXCEPT !.selectedIngredients =
                                     Some(sub[k].selectedIngredients)]
    /\ sub' = [sub EXCEPT ![k] = FinishedSub]
    /\ app' = Render([app EXCEPT !.loading = FALSE])
    /\ UNCHANGED <<store, storeVer, req, seed>>

\* A setItem rejects: saveData's catch block logs, then the finally block
\* of submitRequest.
SaveFail(k) ==
    /\ sub[k].pc \in {"saveMood", "saveIngredients"}
    /\ sub' = [sub EXCEPT ![k] = FinishedSub]
    /\ app' = Render([app EXCEPT !.loading = FALSE])
    /\ UNCHANGED <<store, storeVer, req, seed, storage>>

\* The New Search button of ResultsScreen.
PressNewSearch ==
    /\ CanTap("results")
    /\ Shown(app) # "TypeError"
    /\ app' = Render([app EXCEPT !.currentScreen = "mood",
                                 !.recipes = ArrayData(<<>>),
                                 !.selectedMood = <<>>,
                                 !.customMood = <<>>,
                                 !.selectedIngredients = <<>>])
    /\ UNCHANGED <<store, storeVer, req, seed, storage, sub>>

\* The OK button of an alert.
DismissAlert ==
    /\ app.alert # ""
    /\ app' = [app EXCEPT !.alert = ""]
    /\ UNCHANGED <<store, storeVer, req, seed, storage, sub>>

(***************************************************************************)
(* The specification.                                                      *)
(***************************************************************************)
Init ==
    /\ store = <<>>
    /\ storeVer = 0
    /\ req = [r \in Handlers |-> IdleReq]
    /\ seed = [s \in Seeders |-> "idle"]
    /\ app = InitApp
    /\ storage = NoStorage
    /\ sub = [k \in Handlers |-> IdleSub]

\* One invocation of get-recipes while seeding operations run and overlap.
Next ==
    \/ \E mood \in MoodInputs, ingredients \in IngredientInputs :
          Receive(1, mood, ingredients)
    \/ PrimaryQuery(1)
    \/ PrimaryFail(1)
    \/ FallbackQuery(1)
    \/ FallbackFail(1)
    \/ \E s \in Seeders : SeedDelete(s)
    \/ \E s \in Seeders : SeedInsert(s)
    \/ \E s \in Seeders : SeedFail(s)

Spec == Init /\ [][Next]_vars

\* Several invocations of get-recipes, interleaved with one another and
\* with one seeding operation.
NextInvocations ==
    \/ \E r \in Handlers, mood \in MoodInputs, ingredients \in IngredientInputs :
          Receive(r, mood, ingredients)
    \/ \E r \in Handlers : PrimaryQuery(r)
    \/ \E r \in Handlers : PrimaryFail(r)
    \/ \E r \in Handlers : FallbackQuery(r)
    \/ \E r \in Handlers : FallbackFail(r)
    \/ SeedDelete(1)
    \/ SeedInsert(1)
    \/ SeedFail(1)

SpecInvocations == Init /\ [][NextInvocations]_vars

\* The requests of the worked examples: a stressed cook with everything for
\* mac and cheese, an unknown mood with rice and mushroom, and an ingredient
\* no recipe has.
ExampleMoods == {Some(stressed), Some(excited), Some(happy)}

ExampleIngredients ==
    {Some(<<"pasta", "cheese", "milk", "butter", "flour">>),
     Some(<<"rice", "mushroom">>),
     Some(<<"nonexistent-item">>)}

NextExamples ==
    \/ \E mood \in ExampleMoods, ingredients \in ExampleIngredients :
          Receive(1, mood, ingredients)
    \/ PrimaryQuery(1)
    \/ PrimaryFail(1)
    \/ FallbackQuery(1)
    \/ FallbackFail(1)
    \/ \E s \in Seeders : SeedDelete(s)
    \/ \E s \in Seeders : SeedInsert(s)
    \/ \E s \in Seeders : SeedFail(s)

SpecExamples == Init /\ [][NextExamples]_vars

\* The client, started on a device where an earlier session may have saved
\* its selection, with the server on a collection that was never seeded or
\* was seeded once.
InitClient ==
    /\ store \in {<<>>, sampleRecipes}
    /\ storeVer = 0
    /\ req = [r \in Handlers |-> IdleReq]
    /\ seed = [s \in Seeders |-> "idle"]
    /\ app = InitApp
    /\ storage \in EarlierSessions
    /\ sub = [k \in Handlers |-> IdleSub]

NextClient ==
    \/ FetchIngredients
    \/ FetchIngredientsFail
    \/ LoadMood
    \/ LoadIngredients
    \/ LoadFail
    \/ \E mood \in TappedMoods : handleMoodSelect(mood)
    \/ FocusCustomMood
    \/ \E text \in TypedMoods : ChangeCustomMood(text)
    \/ PressNext
    \/ PressBack
    \/ \E ingredient \in TappedIngredients : handleIngredientToggle(ingredient)
    \/ \E k \in Handlers : submitRequest(k)
    \/ \E k \in Handlers : Deliver(k)
    \/ \E k \in Handlers : FetchResolve(k)
    \/ \E k \in Handlers : FetchReject(k)
    \/ \E k \in Handlers : SaveMood(k)
    \/ \E k \in Handlers : SaveIngredients(k)
    \/ \E k \in Handlers : SaveFail(k)
    \/ PressNewSearch
    \/ DismissAlert
    \/ \E r \in Handlers : PrimaryQuery(r)
    \/ \E r \in Handlers : PrimaryFail(r)
    \/ \E r \in Handlers : FallbackQuery(r)
    \/ \E r \in Handlers : FallbackFail(r)

SpecClient == InitClient /\ [][NextClient]_vars

TypeOK ==
    /\ storeVer \in 0..(2 * NumSeeders)
    /\ \A r \in Handlers : req[r].pc \in {"idle", "primary", "fallback", "done"}
    /\ \A s \in Seeders : seed[s] \in {"idle", "cleared", "seeded", "failed"}

(***************************************************************************)
(* Properties of POST /api/get-recipes.                                    *)
(***************************************************************************)
Succeeded(r) == req[r].pc = "done" /\ req[r].status = 200

\* The ingredient list of a request that passed validation.
Requested(r) == req[r].ingredients[1]

\* C1: the list of every successful response is sorted non-increasing by
\* matchScore: each entry's matchScore is at least that of the next entry.
C1_SortedByMatchScore ==
    \A r \in Handlers :
        Succeeded(r) =>
            \A i \in 1..(Len(req[r].result) - 1) :
                req[r].result[i].matchScore >= req[r].result[i + 1].matchScore

\* A successful response whose list has entries of different matchScore.
C1_Witness ==
    \E r \in Handlers :
        /\ Succeeded(r)
        /\ \E i \in 1..(Len(req[r].result) - 1) :
              req[r].result[i].matchScore > req[r].result[i + 1].matchScore

\* C2: a successful response holds at most 3 recipes, however many records
\* the query returned.
C2_AtMostThree ==
    \A r \in Handlers : Succeeded(r) => Len(req[r].result) <= 3

\* A successful response of 3 recipes cut from a query that returned more.
C2_Witness ==
    \E r \in Handlers :
        /\ Succeeded(r)
        /\ Len(req[r].result) = 3
        /\ req[r].primaryLen > 3 \/ req[r].fallbackLen > 3

\* The position of x in an array without duplicates.
PositionIn(arr, x) == CHOOSE k \in 1..Len(arr) : arr[k] = x

\* C3: every entry of a result has matchScore >= 1, matchScore equal to the
\* number of distinct requested ingredients that are ingredients of the
\* recipe, and matchingIngredients exactly those ingredients, each once, in
\* the order in which the recipe lists them.
C3_ScoreIsIntersection ==
    \A r \in Handlers :
        Succeeded(r) =>
            \A k \in 1..Len(req[r].result) :
                LET e == req[r].result[k]
                    common == Range(e.ingredients) \cap Range(Requested(r))
                    m == e.matchingIngredients
                IN /\ e.matchScore >= 1
                   /\ e.matchScore = Cardinality(common)
                   /\ Len(m) = Cardinality(common)
                   /\ Range(m) = common
                   /\ \A i, j \in 1..Len(m) :
                         i < j => PositionIn(e.ingredients, m[i])
                                    < PositionIn(e.ingredients, m[j])

\* A result entry matching two requested ingredients, where the request
\* lists them in another order than the recipe or lists one of them twice.
C3_Witness ==
    \E r \in Handlers :
        /\ Succeeded(r)
        /\ \E k \in 1..Len(req[r].result) :
              /\ req[r].result[k].matchScore = 2
              /\ req[r].result[k].matchingIngredients # Requested(r)

\* C4: within one invocation the fallback query is issued exactly when the
\* primary query returned zero records, and never while the primary query is
\* pending; when the primary query returned a record, no fallback query is
\* issued and every scored recipe carries the lowercased mood.
C4_FallbackIffPrimaryEmpty ==
    \A r \in Handlers :
        /\ req[r].nFallback \in {0, 1}
        /\ req[r].nFallback = 1 <=> req[r].primaryLen = 0
        /\ req[r].pc \in {"idle", "primary"} => req[r].nFallback = 0
        /\ req[r].nFallback = 1 => req[r].nPrimary = 1
        /\ (Succeeded(r) /\ req[r].primaryLen >= 1) =>
              /\ req[r].fallbackLen = -1
              /\ \A k \in 1..Len(req[r].result) :
                    toLowerCase(req[r].mood[1]) \in Range(req[r].result[k].moodTags)

\* An invocation answered from the fallback query with recipes.
C4_Witness ==
    \E r \in Handlers :
        /\ Succeeded(r)
        /\ req[r].nFallback = 1
        /\ req[r].primaryLen = 0
        /\ req[r].result # <<>>

\* C5: a request with a non-empty mood and a non-empty ingredient list, for
\* which the primary query and the fallback query both returned no record,
\* is answered successfully with the empty list and no error.
C5_NoMatchIsEmptySuccess ==
    \A r \in Handlers :
        (/\ req[r].pc = "done"
         /\ req[r].primaryLen = 0
         /\ req[r].fallbackLen = 0) =>
            /\ req[r].status = 200
            /\ req[r].error = ""
            /\ req[r].result = <<>>

\* The request for an ingredient no recipe has, answered after both queries
\* read a seeded collection.
C5_Witness ==
    \E r \in Handlers :
        /\ req[r].pc = "done"
        /\ req[r].mood = Some(happy)
        /\ req[r].ingredients = Some(<<"nonexistent-item">>)
        /\ req[r].primaryLen = 0
        /\ req[r].fallbackLen = 0
        /\ req[r].status = 200
        /\ store # <<>>
        /\ req[r].vers = {storeVer}

\* The collection did not change between the queries of a and of b: all of
\* them read the same version of it.
SameCollection(a, b) == Cardinality(req[a].vers \cup req[b].vers) <= 1

SameResponse(a, b) ==
    /\ req[a].status = req[b].status
    /\ req[a].error = req[b].error
    /\ req[a].result = req[b].result

SameLetter(c, d) ==
    \/ c = d
    \/ \E k \in 1..Len(UpperChars) : {c, d} = {UpperChars[k], LowerChars[k]}

DifferOnlyInCase(m, n) ==
    /\ m # n
    /\ Len(m) = Len(n)
    /\ \A i \in 1..Len(m) : SameLetter(m[i], n[i])

\* C7: two invocations whose moods differ only in letter case, with the
\* same ingredients against the same unchanged collection, send the same
\* response.
C7_MoodCaseInsensitive ==
    \A a, b \in Handlers :
        (/\ a # b
         /\ req[a].pc = "done" /\ req[b].pc = "done"
         /\ req[a].failed = "" /\ req[b].failed = ""
         /\ req[a].mood # None /\ req[b].mood # None
         /\ DifferOnlyInCase(req[a].mood[1], req[b].mood[1])
         /\ req[a].ingredients = req[b].ingredients
         /\ SameCollection(a, b)) => SameResponse(a, b)

\* "happy" and "HAPPY" with the same ingredients, both answered from the
\* primary query of the same seeded collection.
C7_Witness ==
    \E a, b \in Handlers :
        /\ Succeeded(a) /\ Succeeded(b)
        /\ req[a].mood = Some(happy) /\ req[b].mood = Some(HAPPY)
        /\ req[a].ingredients = req[b].ingredients
        /\ req[a].vers = req[b].vers
        /\ Cardinality(req[a].vers) = 1
        /\ req[a].primaryLen >= 1 /\ req[b].primaryLen >= 1
        /\ req[a].result = req[b].result

\* The mood is missing or empty, or the ingredients are missing or empty.
MissingOrEmpty(h) ==
    \/ h.mood = None
    \/ h.mood = Some(<<>>)
    \/ h.ingredients = None
    \/ h.ingredients = Some(<<>>)

\* C8: a request whose mood is missing or empty, or whose ingredients are
\* missing or an empty list, is answered 400 at once, and neither the
\* primary nor the fallback query is issued for it.
C8_InvalidRejected ==
    \A r \in Handlers :
        (req[r].pc # "idle" /\ MissingOrEmpty(req[r])) =>
            /\ req[r].pc = "done"
            /\ req[r].status = 400
            /\ req[r].error = "Mood and ingredients are required"
            /\ req[r].result = <<>>
            /\ req[r].nPrimary = 0
            /\ req[r].nFallback = 0

\* A request with a mood and an empty ingredient list, rejected.
C8_Witness ==
    \E r \in Handlers :
        /\ req[r].pc = "done"
        /\ req[r].mood = Some(happy)
        /\ req[r].ingredients = Some(<<>>)
        /\ req[r].status = 400

\* C9: when the primary or the fallback query fails, the response is 500
\* "Failed to fetch recipes" without recipes, and no query is issued more
\* than once in an invocation.
C9_QueryFailureIs500 ==
    \A r \in Handlers :
        /\ req[r].nPrimary <= 1
        /\ req[r].nFallback <= 1
        /\ req[r].failed # "" =>
              /\ req[r].pc = "done"
              /\ req[r].status = 500
              /\ req[r].error = "Failed to fetch recipes"
              /\ req[r].result = <<>>

\* The fallback query failed after the primary query returned no record.
C9_Witness ==
    \E r \in Handlers :
        /\ req[r].failed = "fallback"
        /\ req[r].primaryLen = 0
        /\ req[r].nPrimary = 1 /\ req[r].nFallback = 1
        /\ req[r].status = 500

\* The records of the collection that satisfy the filter of the query that
\* fired in h: the ingredient filter, and the mood filter unless the
\* fallback query fired.
Satisfying(coll, h) ==
    {i \in 1..Len(coll) :
        /\ Range(coll[i].ingredients) \cap Range(h.ingredients[1]) # {}
        /\ h.nFallback = 0 => toLowerCase(h.mood[1]) \in Range(coll[i].moodTags)}

\* The first ten of them in the collection's order.
FirstTen(matching) == {i \in matching : Cardinality({j \in matching : j < i}) < 10}

ScoreIn(coll, i, h) ==
    Cardinality(Range(coll[i].ingredients) \cap Range(h.ingredients[1]))

LowestScore(result) ==
    CHOOSE m \in {result[k].matchScore : k \in 1..Len(result)} :
        \A k \in 1..Len(result) : m <= result[k].matchScore

\* Every record among `among` that scores above the lowest score of the
\* result is in the result: there are no more of them than result entries
\* scoring above it.
NoBetterAbsent(coll, among, h) ==
    h.result # <<>> =>
        Cardinality({i \in among : ScoreIn(coll, i, h) > LowestScore(h.result)})
            <= Cardinality({k \in 1..Len(h.result) :
                               h.result[k].matchScore > LowestScore(h.result)})

\* Handler r sends a successful response in this step.
Answers(r) == req[r].pc # "done" /\ req'[r].pc = "done" /\ req'[r].status = 200

\* C10 as claimed: whenever a response is sent, no recipe of the collection
\* that satisfies the filter of the query that fired and is absent from the
\* result scores strictly higher than a recipe in the result.
C10_TopOfAllMatching ==
    [][\A r \in Handlers :
          Answers(r) => NoBetterAbsent(store, Satisfying(store, req'[r]), req'[r])]_vars

\* C10 as amended: whenever a response is sent, no recipe among the first
\* ten records of the collection that satisfy the filter of the query that
\* fired, and absent from the result, scores strictly higher than a recipe
\* in the result.
C10_TopOfFirstTen ==
    [][\A r \in Handlers :
          Answers(r) =>
              NoBetterAbsent(store, FirstTen(Satisfying(store, req'[r])), req'[r])]_vars

\* A response of three recipes of different scores, ranked from a query
\* that returned as many records as its limit allows.
C10_Witness ==
    \E r \in Handlers :
        /\ Succeeded(r)
        /\ req[r].primaryLen = 10 \/ req[r].fallbackLen = 10
        /\ Len(req[r].result) = 3
        /\ req[r].result[1].matchScore > req[r].result[3].matchScore

\* The five ingredients of the mac and cheese example.
MacAndCheeseRequest == <<"pasta", "cheese", "milk", "butter", "flour">>

\* C11: when every query of an invocation reads a collection holding exactly
\* the seeded catalog, the request mood "stressed" with pasta, cheese, milk,
\* butter and flour is answered from the primary query, and its first recipe
\* is "Comfort Mac and Cheese" with matchScore 5.
C11_MacAndCheeseFirst ==
    [][\A r \in Handlers :
          (/\ req[r].pc # "done" /\ req'[r].pc = "done"
           /\ req'[r].failed = ""
           /\ store = sampleRecipes
           /\ req'[r].vers = {storeVer}
           /\ req'[r].mood = Some(stressed)
           /\ req'[r].ingredients = Some(MacAndCheeseRequest)) =>
              /\ req'[r].status = 200
              /\ req'[r].nFallback = 0
              /\ req'[r].primaryLen >= 1
              /\ req'[r].result # <<>>
              /\ req'[r].result[1].name = "Comfort Mac and Cheese"
              /\ req'[r].result[1].matchScore = 5]_vars

\* The example request, answered against the seeded catalog.
C11_Witness ==
    \E r \in Handlers :
        /\ Succeeded(r)
        /\ req[r].mood = Some(stressed)
        /\ req[r].ingredients = Some(MacAndCheeseRequest)
        /\ store = sampleRecipes
        /\ req[r].vers = {storeVer}
        /\ req[r].nFallback = 0
        /\ Len(req[r].result) = 3
        /\ req[r].result[1].name = "Comfort Mac and Cheese"

\* C12: no step of a get-recipes invocation changes the recipe collection,
\* for any number of invocations interleaved with one another.
C12_InvocationsLeaveCollection ==
    [][req' # req => (store' = store /\ storeVer' = storeVer)]_vars

\* One invocation has answered from a seeded collection while another one,
\* received before it, is still waiting for its fallback query.
C12_Witness ==
    \E a, b \in Handlers :
        /\ a < b
        /\ req[a].pc = "fallback"
        /\ Succeeded(b)
        /\ req[b].result # <<>>
        /\ store = sampleRecipes

\* The place of record i in a stable descending ranking of the records
\* `among`: after every record that scores higher, and after the records of
\* equal score that come before it in the collection.
StableRank(coll, among, i, h) ==
    1 + Cardinality({j \in among : ScoreIn(coll, j, h) > ScoreIn(coll, i, h)})
      + Cardinality({j \in among : /\ j < i
                                    /\ ScoreIn(coll, j, h) = ScoreIn(coll, i, h)})

\* C13: ranking is stable. Whenever a response is sent, each record the
\* query returned stands in the result at its place in the stable descending
\* ranking, so that returned recipes of equal matchScore keep the relative
\* order in which the query returned them.
C13_StableRanking ==
    [][\A r \in Handlers :
          Answers(r) =>
              LET h == req'[r]
                  returned == FirstTen(Satisfying(store, h))
              IN \A i \in returned :
                    StableRank(store, returned, i, h) <= Len(h.result) =>
                        h.result[StableRank(store, returned, i, h)].name = store[i].name]_vars

\* A result in which two different recipes tie.
C13_Witness ==
    \E r \in Handlers :
        /\ Succeeded(r)
        /\ \E k \in 1..(Len(req[r].result) - 1) :
              /\ req[r].result[k].matchScore = req[r].result[k + 1].matchScore
              /\ req[r].result[k].name # req[r].result[k + 1].name

\* Every seeding operation that started has completed, and one has.
SeedingsCompleted ==
    /\ \A s \in Seeders : seed[s] \in {"idle", "seeded"}
    /\ \E s \in Seeders : seed[s] = "seeded"

\* C14: once every started seeding operation has completed, the collection
\* holds exactly the 15 catalog recipes, each exactly once, however the
\* seeding operations overlapped.
C14_SeedingReplaces ==
    SeedingsCompleted => store = sampleRecipes

\* Some recipe of the catalog carries the lowercased mood and has one of the
\* requested ingredients.
CatalogHasMoodMatch(h) ==
    \E i \in 1..Len(sampleRecipes) :
        /\ toLowerCase(h.mood[1]) \in Range(sampleRecipes[i].moodTags)
        /\ Range(sampleRecipes[i].ingredients) \cap Range(h.ingredients[1]) # {}

\* C17: when the catalog has a recipe matching both the mood and the
\* requested ingredients, a get-recipes response, also one that overlaps a
\* seeding, is either the empty list or holds only recipes that carry the
\* requested mood.
C17_NoMismatchedFallback ==
    \A r \in Handlers :
        (Succeeded(r) /\ CatalogHasMoodMatch(req[r])) =>
            \A k \in 1..Len(req[r].result) :
                toLowerCase(req[r].mood[1]) \in Range(req[r].result[k].moodTags)

(***************************************************************************)
(* The mobile client.                                                      *)
(***************************************************************************)
\* The user has chosen no mood, or no ingredient.
InputMissing ==
    \/ app.selectedMood = <<>> /\ app.customMood = <<>>
    \/ Len(app.selectedIngredients) = 0

\* The request handler k has received carries a mood and an ingredient.
CarriesInput(h) ==
    /\ h.mood # None /\ h.mood[1] # <<>>
    /\ h.ingredients # None /\ Len(h.ingredients[1]) >= 1

\* C15: the client sends a get-recipes request only with a non-empty mood
\* (preset or custom) and at least one selected ingredient; when either is
\* missing, submitRequest shows an alert, sends nothing, and leaves
\* loading, recipes and currentScreen as they were.
C15_ClientValidates ==
    [][\A k \in Handlers :
          /\ (req[k].pc = "idle" /\ req'[k].pc # "idle") => CarriesInput(req'[k])
          /\ (submitRequest(k) /\ InputMissing) =>
                /\ app.alert = "" /\ app'.alert # ""
                /\ app'.loading = app.loading
                /\ app'.recipes = app.recipes
                /\ app'.currentScreen = app.currentScreen
                /\ sub' = sub /\ req' = req]_vars

\* A request went out, and a later press without a mood is answered by the
\* alert.
C15_Witness ==
    /\ req[1].pc # "idle" /\ CarriesInput(req[1])
    /\ InputMissing
    /\ app.alert = "Please select a mood or enter a custom mood."

\* C16: whenever the client shows the results screen with an empty recipe
\* list, what it renders is the "No recipes found" state, not a blank
\* screen and not the list of cards.
C16_EmptyListIsExplicit ==
    (app.currentScreen = "results" /\ app.recipes = ArrayData(<<>>))
        => Shown(app) = "NoRecipes"

\* The server answered 200 with an empty list and the client shows it.
C16_Witness ==
    /\ app.currentScreen = "results"
    /\ app.recipes = ArrayData(<<>>)
    /\ \E k \in Handlers : req[k].pc = "done" /\ req[k].status = 200
                              /\ req[k].result = <<>>

\* C18: whenever the client shows the results screen, recipes is a list of
\* recipe records (possibly empty), whatever the server answered; an error
\* response never brings the client to the results screen with a value
\* that is not a list.
C18_ResultsAreAList ==
    app.currentScreen = "results" => app.recipes.kind = "array"

\* submitRequest k has passed its checks and has not returned.
InProgress(k) == sub[k].pc \in {"fetching", "saveMood", "saveIngredients"}

\* The fetch of submitRequest k is neither resolved nor rejected.
InFlight(k) == sub[k].pc = "fetching"

LoadingOnlyInProgress ==
    /\ app.loading => \E k \in Handlers : InProgress(k)
    /\ Cardinality({k \in Handlers : InFlight(k)}) <= 1

\* C19: loading is true only while a submitRequest is in progress, and is
\* false when a submitRequest has just finished, whether its fetch resolved
\* or rejected; at most one get-recipes fetch of the client is in flight at
\* any time.
C19_LoadingBracketsSubmit ==
    [][/\ LoadingOnlyInProgress /\ LoadingOnlyInProgress'
       /\ \A k \in Handlers :
             (InProgress(k) /\ sub'[k].pc = "finished") => ~app'.loading]_vars

\* One submitRequest finished, loading went back to false, the user
\* pressed the button again and the second request is in flight.
C19_Witness ==
    /\ sub[1].pc = "finished"
    /\ InFlight(2)
    /\ app.loading

\* C20: selectedMood and customMood are never both non-empty, after any
\* sequence of preset taps, focusing of the custom input, text edits and
\* the completion of loadSavedData.
C20_MoodsExclusive ==
    ~(app.selectedMood # <<>> /\ app.customMood # <<>>)

=============================================================================
